---- MODULE Spec2Model ----
(***************************************************************************)
(* One invocation of the SnapshotCleanup HTTP function (main) driving an   *)
(* AzureSnapshotManager: parameter resolution, credential, subscription    *)
(* enumeration, orphan scan with the disk-existence cache, deletion,       *)
(* report export and the HTTP response.  Every provider call is one step   *)
(* whose outcome (success, an AzureError, any other exception) is chosen   *)
(* by the environment.                                                     *)
(*                                                                         *)
(* Python values are written as tokens: "True", "False", "None", "0" (the  *)
(* number zero) and "'false'" (a non-empty string).  A resource id is the  *)
(* sequence of its '/'-separated segments, i.e. the value of               *)
(* id.split('/'); Python index k is TLA+ index k+1.                        *)
(***************************************************************************)
EXTENDS Integers, Sequences, FiniteSets, TLC

\* ------------------------------------------------------------------ bounds
\* Snapshots the provider holds, over all subscriptions.
MaxSnaps == 2
\* Changes other actors make to the provider's disks during one invocation.
MaxDiskChanges == 1

\* ------------------------------------------------------- values and inputs
Unset == "<unset>"
Missing == "<missing>"

\* Python truthiness of the tokens used for flags and identifiers.
Truthy(v) == v \notin {"False", "None", "0", "''"}

\* Subclasses of azure.core.exceptions.AzureError: not found; permission, throttling
\* and transport failures.
AzureErrors == {"ResourceNotFoundError", "HttpResponseError"}
IsAzureError_OnlyNotFound(o) == o = "ResourceNotFoundError"
\* "except AzureError" catches o.
IsAzureError(o) == o \in AzureErrors
\* An exception that is no AzureError (ValueError, AttributeError, ...).
OtherError == "Exception"
IsError(o) == IsAzureError(o) \/ o = OtherError

\* The provider's subscriptions, in the order subscriptions.list() yields them.
ProviderSubscriptions == <<"s1", "s2">>
SubscriptionName(sub) == IF sub = "s1" THEN "Sub One" ELSE "Sub Two"

\* /subscriptions/{sub}/resourceGroups/{rg}/providers/Microsoft.Compute/{type}/{name}
ResourceId(sub, rg, ns, type, name) ==
  <<"", "subscriptions", sub, "resourceGroups", rg, "providers", ns, type, name>>
DiskD1 == ResourceId("s1", "rg1", "Microsoft.Compute", "disks", "d1")
WrongNamespace == ResourceId("s1", "rg1", "Microsoft.Storage", "disks", "d1")
WrongType == ResourceId("s1", "rg1", "Microsoft.Compute", "snapshots", "d1")
TooShort == <<"", "too", "short">>
\* creation_data.source_resource_id is None or "" (falsy).
NoSource == <<>>

\* disk_size_gb: <<n>> for the number n, <<>> for None.
NoneGB == <<>>

\* What a listed snapshot carries besides its name and id.
SnapshotKinds ==
  { [src |-> DiskD1,         disk_size_gb |-> <<10>>],
    [src |-> NoSource,       disk_size_gb |-> <<25>>],
    [src |-> TooShort,       disk_size_gb |-> NoneGB],
    [src |-> WrongNamespace, disk_size_gb |-> <<0>>],
    [src |-> WrongType,      disk_size_gb |-> <<25>>] }

SnapshotName(i) == IF i = 1 THEN "snap1" ELSE IF i = 2 THEN "snap2"
                   ELSE IF i = 3 THEN "snap3" ELSE "snap4"
SnapshotId(sub, name) ==
  ResourceId(sub, "rgs", "Microsoft.Compute", "snapshots", name)

SeqsUpTo(S, n) == UNION { [1..k -> S] : k \in 0..n }

\* The snapshots a subscription holds: kinds in listing order, named by position.
MkSnapshots(sub, kinds) ==
  [i \in 1..Len(kinds) |->
     [name |-> SnapshotName(i), id |-> SnapshotId(sub, SnapshotName(i)),
      src |-> kinds[i].src, disk_size_gb |-> kinds[i].disk_size_gb]]

\* The disks that can exist at the provider: <<subscription, resource group, name>>.
DiskUniverse == { <<"s1", "rg1", "d1">> }

VARIABLES
  env,                 \* os.environ: variable name -> value or Unset
  body,                \* the request body: "none", "invalid", or field -> JSON value
  provSnapshots,       \* provider: subscription -> its snapshots, in listing order
  disks,               \* provider: the disks that exist now
  diskChanges,         \* how often other actors changed disks
  pc,                  \* position of main
  subscription_id, enable_deletion, dry_run,   \* main's resolved parameters
  subscriptions, subIdx,                       \* find_orphaned_snapshots: outer loop
  snapshots, snapIdx,                          \* find_orphaned_snapshots: inner loop
  disk_cache,          \* self.disk_cache: <<subscription, id>> -> BOOLEAN
  orphaned_snapshots,  \* self.orphaned_snapshots
  results,             \* main's results dict: key -> value
  successful, failed, delIdx,                  \* delete_orphaned_snapshots
  report_url,          \* export_to_storage's return value ("None" when absent)
  calls,               \* every provider call issued so far, in order
  checks,              \* every disk_exists call that returned, with its answer
  responses            \* the HTTP responses returned

vars == <<env, body, provSnapshots, disks, diskChanges, pc, subscription_id,
          enable_deletion, dry_run, subscriptions, subIdx, snapshots, snapIdx,
          disk_cache, orphaned_snapshots, results, successful, failed, delIdx,
          report_url, calls, checks, responses>>

provider == <<provSnapshots, disks, diskChanges>>
inputs == <<env, body>>
params == <<subscription_id, enable_deletion, dry_run>>
scan == <<subscriptions, subIdx, snapshots, snapIdx>>
del == <<successful, failed, delIdx>>

EmptyMap == [x \in {} |-> x]
Call(op, sub, arg, ref, outcome) ==
  [op |-> op, sub |-> sub, arg |-> arg, ref |-> ref, outcome |-> outcome]

\* ------------------------------------------------------------------- Init
EnvOf(enable, dry, sub, conn) ==
  [ENABLE_DELETION |-> enable, DRY_RUN |-> dry, SUBSCRIPTION_ID |-> sub,
   STORAGE_CONNECTION_STRING |-> conn]
BodyOf(kind, enable, dry, sub) ==
  [kind |-> kind, enableDeletion |-> enable, dryRun |-> dry, subscriptionId |-> sub]
NoBody == BodyOf("none", Missing, Missing, Missing)
InvalidBody == BodyOf("invalid", Missing, Missing, Missing)

\* Every combination of the two flags, in the environment and in the body.
FlagInputs ==
  /\ env \in { EnvOf(e, d, Unset, Unset) :
                 e \in {Unset, "TRUE", "false"}, d \in {Unset, "TRUE", "false"} }
  /\ body \in {NoBody, InvalidBody, BodyOf("object", Missing, Missing, "s2")} \cup
              { BodyOf("object", e, d, Missing) :
                  e \in {Missing, "True", "False", "'false'"},
                  d \in {Missing, "True", "False", "None", "0"} }
\* No deletion, dry-run deletion and real deletion, each over all subscriptions
\* with and without export, and over one subscription.
ScopeInputs ==
  \E mode \in {"none", "dry", "real"},
     sc \in {<<Unset, Unset>>, <<Unset, "conn">>, <<"s1", Unset>>} :
    /\ env = EnvOf(IF mode = "dry" THEN "TRUE" ELSE Unset, Unset, sc[1], sc[2])
    /\ body = IF mode = "real" THEN BodyOf("object", Missing, "False", Missing)
              ELSE NoBody

Worlds ==
  { w \in SeqsUpTo(SnapshotKinds, MaxSnaps) \X SeqsUpTo(SnapshotKinds, MaxSnaps) :
      Len(w[1]) + Len(w[2]) <= MaxSnaps }
ProviderOf(w) ==
  [sub \in {"s1", "s2"} |-> MkSnapshots(sub, IF sub = "s1" THEN w[1] ELSE w[2])]
SmallWorld ==
  <<  <<[src |-> DiskD1, disk_size_gb |-> <<10>>]>>,
      <<[src |-> TooShort, disk_size_gb |-> NoneGB]>>  >>

Init ==
  /\ \/ FlagInputs /\ provSnapshots = ProviderOf(SmallWorld)
     \/ ScopeInputs /\ provSnapshots \in { ProviderOf(w) : w \in Worlds }
  /\ disks \in SUBSET DiskUniverse
  /\ diskChanges = 0
  /\ pc = "main"
  /\ subscription_id = "None" /\ enable_deletion = "False" /\ dry_run = "True"
  /\ subscriptions = <<>> /\ subIdx = 0
  /\ snapshots = <<>> /\ snapIdx = 0
  /\ disk_cache = EmptyMap
  /\ orphaned_snapshots = <<>>
  /\ results = EmptyMap
  /\ successful = 0 /\ failed = 0 /\ delIdx = 0
  /\ report_url = "None"
  /\ calls = <<>>
  /\ checks = <<>>
  /\ responses = <<>>

\* ------------------------------------------------------------------- main
\* os.environ.get(name, default)
EnvGet(name, default) == IF env[name] = Unset THEN default ELSE env[name]
\* str.lower() on the values the environment can hold
Lower(s) == IF s \in {"TRUE", "True", "true"} THEN "true"
            ELSE IF s \in {"FALSE", "False", "false"} THEN "false" ELSE s
PyBool(b) == IF b THEN "True" ELSE "False"
\* req_body.get(field, default); a body that is absent reads as {}
BodyGet(field, default) ==
  IF body.kind = "object" /\ body[field] # Missing THEN body[field] ELSE default

ErrorResponse_WithSummary ==
  [status_code |-> 500,
   body |-> ("error" :> "Error in snapshot cleanup function") @@ results]
\* except Exception in main: one 500 response holding only the error message.
ErrorResponse ==
  [status_code |-> 500, body |-> ("error" :> "Error in snapshot cleanup function")]
Raise ==
  /\ responses' = Append(responses, ErrorResponse)
  /\ pc' = "done"

\* main, lines 319-331: environment first, then the request body's fields.
ReadParameters ==
  /\ pc = "main"
  /\ IF body.kind = "invalid"
       THEN /\ Raise
            /\ UNCHANGED params
       ELSE /\ subscription_id' = BodyGet("subscriptionId", EnvGet("SUBSCRIPTION_ID", "None"))
            /\ enable_deletion' = BodyGet("enableDeletion",
                   PyBool(Lower(EnvGet("ENABLE_DELETION", "false")) = "true"))
            /\ dry_run' = BodyGet("dryRun",
                   PyBool(Lower(EnvGet("DRY_RUN", "true")) = "true"))
            /\ pc' = "credential"
            /\ UNCHANGED responses
  /\ UNCHANGED <<checks, inputs, provider, scan, disk_cache, orphaned_snapshots, results,
                 del, report_url, calls>>

\* main, lines 333-341: the credential, then the manager with its empty caches.
CreateCredential ==
  /\ pc = "credential"
  /\ \E o \in {"ok", OtherError, "HttpResponseError"} :
       /\ calls' = Append(calls, Call("credential", "", <<>>, <<>>, o))
       /\ IF o = "ok"
            THEN /\ pc' = "find"
                 /\ disk_cache' = EmptyMap
                 /\ orphaned_snapshots' = <<>>
                 /\ UNCHANGED responses
            ELSE /\ Raise
                 /\ UNCHANGED <<disk_cache, orphaned_snapshots>>
  /\ UNCHANGED <<checks, inputs, provider, params, scan, results, del, report_url>>

\* ------------------------------------------------- AzureSnapshotManager
\* get_subscriptions, lines 59-69: the configured subscription, looked up by id,
\* or every subscription the credential sees.
SubscriptionsFound ==
  IF Truthy(subscription_id)
    THEN << [id |-> subscription_id, name |-> SubscriptionName(subscription_id)] >>
    ELSE [i \in 1..Len(ProviderSubscriptions) |->
            [id |-> ProviderSubscriptions[i],
             name |-> SubscriptionName(ProviderSubscriptions[i])]]

\* find_orphaned_snapshots, lines 151-152: reset the result list and resolve the
\* subscriptions; nothing here is guarded, so any error leaves find and main.
GetSubscriptions ==
  /\ pc = "find"
  /\ orphaned_snapshots' = <<>>
  /\ \E o \in {"ok", "HttpResponseError", OtherError} :
       /\ calls' = Append(calls,
            Call(IF Truthy(subscription_id) THEN "subscriptions.get"
                 ELSE "subscriptions.list", "", <<>>, <<>>, o))
       /\ IF o = "ok"
            THEN /\ subscriptions' = SubscriptionsFound
                 /\ subIdx' = 1
                 /\ pc' = "scan"
                 /\ UNCHANGED responses
            ELSE /\ Raise
                 /\ UNCHANGED <<subscriptions, subIdx>>
  /\ UNCHANGED <<checks, inputs, provider, params, snapshots, snapIdx, disk_cache, results,
                 del, report_url>>

AfterListingError_Abort(i) == Len(subscriptions) + 1
\* find_orphaned_snapshots, lines 154 and 201-202: the handler only logs, so the
\* loop goes on with the subscription after i.
AfterListingError(i) == i + 1

\* find_orphaned_snapshots, lines 154-163 and 201-202: list one subscription's
\* snapshots; an AzureError skips the subscription, anything else propagates.
ListSnapshots ==
  /\ pc = "scan"
  /\ subIdx <= Len(subscriptions)
  /\ LET sub == subscriptions[subIdx].id IN
     \E o \in {"ok", "HttpResponseError", OtherError} :
       /\ calls' = Append(calls, Call("snapshots.list", sub,
                             IF o = "ok" THEN provSnapshots[sub] ELSE <<>>, <<>>, o))
       /\ IF o = "ok"
            THEN /\ snapshots' = provSnapshots[sub]
                 /\ snapIdx' = 1
                 /\ pc' = "scan_snapshots"
                 /\ UNCHANGED <<subIdx, responses>>
            ELSE IF IsAzureError(o)
            THEN /\ subIdx' = AfterListingError(subIdx)
                 /\ UNCHANGED <<snapshots, snapIdx, pc, responses>>
            ELSE /\ Raise
                 /\ UNCHANGED <<subIdx, snapshots, snapIdx>>
  /\ UNCHANGED <<checks, inputs, provider, params, subscriptions, disk_cache,
                 orphaned_snapshots, results, del, report_url>>

\* disk_exists, line 118.  The key is the string "{subscription_id}:{id}"; for the
\* colon-free subscription ids the provider issues it names the pair one-to-one.
cache_key(sub, id) == <<sub, id>>

ValidDiskId_NoTypeCheck(parts) ==
  ~ (Len(parts) < 9 \/ parts[7] # "Microsoft.Compute")
\* disk_exists, line 127: the id has the shape of a disk id.
ValidDiskId(parts) ==
  ~ (Len(parts) < 9 \/ parts[7] # "Microsoft.Compute" \/ parts[8] # "disks")

\* Whether disks.get(parts[4], parts[8]) in subscription sub names a disk that
\* exists now.
DiskPresent(sub, parts) ==
  Len(parts) >= 9 /\ <<sub, parts[5], parts[9]>> \in disks

\* The outcomes of compute_client.disks.get(resource_group, disk_name) in
\* subscription sub, given the disks that exist now.
LookupOutcomes(sub, rg, name) ==
  IF <<sub, rg, name>> \in disks
    THEN {"ok", "HttpResponseError", OtherError}
    ELSE {"ResourceNotFoundError", OtherError}

disk_exists_NoCache(sub, id, o) ==
  LET key == cache_key(sub, id) IN
  IF ~ ValidDiskId(id)
    THEN [raised |-> FALSE, value |-> FALSE,
          cache |-> (key :> FALSE) @@ disk_cache, issued |-> <<>>]
  ELSE LET call == Call("disks.get", sub, <<id[5], id[9]>>, id, o) IN
       IF o = "ok"
         THEN [raised |-> FALSE, value |-> TRUE,
               cache |-> (key :> TRUE) @@ disk_cache, issued |-> <<call>>]
       ELSE IF IsAzureError(o)
         THEN [raised |-> FALSE, value |-> FALSE,
               cache |-> (key :> FALSE) @@ disk_cache, issued |-> <<call>>]
       ELSE [raised |-> TRUE, value |-> FALSE, cache |-> disk_cache,
             issued |-> <<call>>]

\* disk_exists, lines 117-142, with outcome o of the remote lookup (read only when
\* a lookup is made): whether it raised, what it returned, the cache afterwards
\* and the provider calls it issued.
disk_exists(sub, id, o) ==
  LET key == cache_key(sub, id) IN
  IF key \in DOMAIN disk_cache
    THEN [raised |-> FALSE, value |-> disk_cache[key], cache |-> disk_cache,
          issued |-> <<>>]
  ELSE IF ~ ValidDiskId(id)
    THEN [raised |-> FALSE, value |-> FALSE, cache |-> disk_cache @@ (key :> FALSE),
          issued |-> <<>>]
  ELSE LET call == Call("disks.get", sub, <<id[5], id[9]>>, id, o) IN
       IF o = "ok"
         THEN [raised |-> FALSE, value |-> TRUE, cache |-> disk_cache @@ (key :> TRUE),
               issued |-> <<call>>]
       ELSE IF IsAzureError(o)
         THEN [raised |-> FALSE, value |-> FALSE,
               cache |-> disk_cache @@ (key :> FALSE), issued |-> <<call>>]
       ELSE [raised |-> TRUE, value |-> FALSE, cache |-> disk_cache,
             issued |-> <<call>>]

\* Whether disk_exists(sub, id) goes to the provider.
NeedsLookup(sub, id) ==
  cache_key(sub, id) \notin DOMAIN disk_cache /\ ValidDiskId(id)

\* find_orphaned_snapshots, lines 187-197 (creation time and tags left out).
OrphanRecord(subscription, snapshot) ==
  [subscription_id |-> subscription.id,
   subscription_name |-> subscription.name,
   resource_group |-> snapshot.id[5],
   name |-> snapshot.name,
   id |-> snapshot.id,
   source_disk_id |-> snapshot.src,
   size_gb |-> snapshot.disk_size_gb]

append_AtFront(list, record) == <<record>> \o list
\* find_orphaned_snapshots, line 199: self.orphaned_snapshots.append(record).
append(list, record) == Append(list, record)

HasSource_Unchecked(snapshot) == TRUE
\* find_orphaned_snapshots, lines 167-169: the snapshot names a source disk.
HasSource(snapshot) == snapshot.src # NoSource

\* find_orphaned_snapshots, lines 165-199: one snapshot of the listing.
ScanSnapshot ==
  /\ pc = "scan_snapshots"
  /\ snapIdx <= Len(snapshots)
  /\ LET subscription == subscriptions[subIdx]
         snapshot == snapshots[snapIdx] IN
     IF ~ HasSource(snapshot)
       THEN /\ snapIdx' = snapIdx + 1
            /\ UNCHANGED <<disk_cache, orphaned_snapshots, calls, checks, pc,
                           responses>>
       ELSE \E o \in (IF NeedsLookup(subscription.id, snapshot.src)
                        THEN LookupOutcomes(subscription.id, snapshot.src[5],
                                            snapshot.src[9])
                        ELSE {"ok"}) :
              LET r == disk_exists(subscription.id, snapshot.src, o) IN
              /\ calls' = calls \o r.issued
              /\ disk_cache' = r.cache
              /\ IF r.raised
                   THEN /\ Raise
                        /\ UNCHANGED <<snapIdx, orphaned_snapshots, checks>>
                   ELSE /\ checks' = Append(checks,
                             [sub |-> subscription.id, id |-> snapshot.src,
                              value |-> r.value,
                              present |-> DiskPresent(subscription.id, snapshot.src)])
                        /\ orphaned_snapshots' =
                             IF ~ r.value
                               THEN append(orphaned_snapshots,
                                           OrphanRecord(subscription, snapshot))
                               ELSE orphaned_snapshots
                        /\ snapIdx' = snapIdx + 1
                        /\ UNCHANGED <<pc, responses>>
  /\ UNCHANGED <<inputs, provider, params, subscriptions, subIdx, snapshots,
                 results, del, report_url>>

\* find_orphaned_snapshots, line 165: the listing is exhausted, next subscription.
EndOfListing ==
  /\ pc = "scan_snapshots"
  /\ snapIdx > Len(snapshots)
  /\ subIdx' = subIdx + 1
  /\ pc' = "scan"
  /\ UNCHANGED <<checks, inputs, provider, params, subscriptions, snapshots, snapIdx,
                 disk_cache, orphaned_snapshots, results, del, report_url, calls,
                 responses>>

\* Another actor creates or deletes a disk while the scan runs.  The scan meets
\* disks only where it checks a well-formed source id, so the change is
\* interleaved just before such a check.
DiskChange ==
  /\ pc = "scan_snapshots"
  /\ snapIdx <= Len(snapshots)
  /\ HasSource(snapshots[snapIdx]) /\ ValidDiskId(snapshots[snapIdx].src)
  /\ diskChanges < MaxDiskChanges
  /\ \E d \in DiskUniverse :
       disks' = IF d \in disks THEN disks \ {d} ELSE disks \cup {d}
  /\ diskChanges' = diskChanges + 1
  /\ UNCHANGED <<checks, inputs, provSnapshots, pc, params, scan, disk_cache,
                 orphaned_snapshots, results, del, report_url, calls, responses>>

SumSizes_Count(records) == Len(records)
\* main, line 350: sum(s['size_gb'] for s in orphaned_snapshots if s['size_gb']);
\* None and 0 are falsy and left out of the sum.
RECURSIVE SumSizes(_)
SumSizes(records) ==
  IF records = <<>> THEN 0
  ELSE LET size == Head(records).size_gb IN
       (IF size # NoneGB /\ size[1] # 0 THEN size[1] ELSE 0) + SumSizes(Tail(records))

\* main, lines 344-355: find returned; the summary, then the choice of deletion.
Summarize ==
  /\ pc = "scan"
  /\ subIdx > Len(subscriptions)
  /\ results' = ("timestamp" :> "utcnow")
             @@ ("orphanedSnapshotsCount" :> Len(orphaned_snapshots))
             @@ ("totalSizeGB" :> SumSizes(orphaned_snapshots))
             @@ ("subscriptionId" :>
                   IF Truthy(subscription_id) THEN subscription_id ELSE "all")
  /\ pc' = IF Truthy(enable_deletion) \/ ~ Truthy(dry_run) THEN "delete" ELSE "export"
  /\ UNCHANGED <<checks, inputs, provider, params, scan, disk_cache, orphaned_snapshots,
                 del, report_url, calls, responses>>

\* main, lines 357-361
WithDeletion(res, s, f) ==
  ("deletion" :> [dryRun |-> dry_run, successful |-> s, failed |-> f]) @@ res

\* delete_orphaned_snapshots, lines 217-222: nothing to delete, or start the loop.
DeleteStart ==
  /\ pc = "delete"
  /\ successful' = 0
  /\ failed' = 0
  /\ IF orphaned_snapshots = <<>>
       THEN /\ results' = WithDeletion(results, 0, 0)
            /\ pc' = "export"
            /\ UNCHANGED delIdx
       ELSE /\ delIdx' = 1
            /\ pc' = "delete_loop"
            /\ UNCHANGED results
  /\ UNCHANGED <<checks, inputs, provider, params, scan, disk_cache, orphaned_snapshots,
                 report_url, calls, responses>>

\* The provider after snapshots.begin_delete(resource_group, name) succeeded in sub.
AfterDelete(sub, rg, name) ==
  [provSnapshots EXCEPT ![sub] =
     SelectSeq(@, LAMBDA x : ~ (x.name = name /\ x.id[5] = rg))]

DryRun_Inverted(flag) == ~ Truthy(flag)
\* delete_orphaned_snapshots, line 230: "if dry_run:".
DryRun(flag) == Truthy(flag)

Counted_FailureAsSuccess(o, s, f) == <<s + 1, f>>
\* delete_orphaned_snapshots, lines 246-250: (successful, failed) after a delete
\* that returned or raised an AzureError.
Counted(o, s, f) == IF o = "ok" THEN <<s + 1, f>> ELSE <<s, f + 1>>

\* delete_orphaned_snapshots, lines 224-250: one record of the list.
DeleteOne ==
  /\ pc = "delete_loop"
  /\ delIdx <= Len(orphaned_snapshots)
  /\ LET snapshot == orphaned_snapshots[delIdx] IN
     IF DryRun(dry_run)
       THEN /\ successful' = successful + 1
            /\ delIdx' = delIdx + 1
            /\ UNCHANGED <<failed, provSnapshots, calls, pc, responses>>
       ELSE \E o \in {"ok", "HttpResponseError", OtherError} :
              /\ calls' = Append(calls,
                   Call("snapshots.begin_delete", snapshot.subscription_id,
                        <<snapshot.resource_group, snapshot.name>>, snapshot.id, o))
              /\ provSnapshots' =
                   IF o = "ok"
                     THEN AfterDelete(snapshot.subscription_id,
                                      snapshot.resource_group, snapshot.name)
                     ELSE provSnapshots
              /\ IF o = "ok" \/ IsAzureError(o)
                   THEN /\ successful' = Counted(o, successful, failed)[1]
                        /\ failed' = Counted(o, successful, failed)[2]
                        /\ delIdx' = delIdx + 1
                        /\ UNCHANGED <<pc, responses>>
                   ELSE /\ Raise
                        /\ UNCHANGED <<successful, failed, delIdx>>
  /\ UNCHANGED <<checks, inputs, disks, diskChanges, params, scan, disk_cache,
                 orphaned_snapshots, results, report_url>>

\* delete_orphaned_snapshots, line 252, and main, lines 356-361.
DeleteReturn ==
  /\ pc = "delete_loop"
  /\ delIdx > Len(orphaned_snapshots)
  /\ results' = WithDeletion(results, successful, failed)
  /\ pc' = "export"
  /\ UNCHANGED <<checks, inputs, provider, params, scan, disk_cache, orphaned_snapshots,
                 del, report_url, calls, responses>>

\* STORAGE_CONTAINER_NAME is left at its default, "snapshot-reports".
storage_connection_string == EnvGet("STORAGE_CONNECTION_STRING", "None")

\* main, line 364, and export_to_storage, lines 265-274: export is skipped without
\* a connection string, returns None on an empty list, and otherwise builds the
\* clients (BlobServiceClient.from_connection_string raises on a bad string).
ExportStart ==
  /\ pc = "export"
  /\ IF ~ Truthy(storage_connection_string) \/ orphaned_snapshots = <<>>
       THEN /\ report_url' = "None"
            /\ pc' = "respond"
       ELSE \E o \in {"ok", OtherError} :
              /\ report_url' = "None"
              /\ pc' = IF o = "ok" THEN "export_container" ELSE "respond"
  /\ UNCHANGED <<checks, inputs, provider, params, scan, disk_cache, orphaned_snapshots,
                 results, del, calls, responses>>

\* export_to_storage, lines 277-278 and 300-302: the container, created if absent.
ExportContainer ==
  /\ pc = "export_container"
  /\ \E o \in {"exists", "absent", "HttpResponseError", OtherError} :
       /\ calls' = Append(calls, Call("container.exists", "", <<>>, <<>>, o))
       /\ pc' = IF o = "exists" THEN "export_upload"
                ELSE IF o = "absent" THEN "export_create" ELSE "respond"
  /\ UNCHANGED <<checks, inputs, provider, params, scan, disk_cache, orphaned_snapshots,
                 results, del, report_url, responses>>

ExportCreateContainer ==
  /\ pc = "export_create"
  /\ \E o \in {"ok", "HttpResponseError", OtherError} :
       /\ calls' = Append(calls, Call("container.create_container", "", <<>>, <<>>, o))
       /\ pc' = IF o = "ok" THEN "export_upload" ELSE "respond"
  /\ UNCHANGED <<checks, inputs, provider, params, scan, disk_cache, orphaned_snapshots,
                 results, del, report_url, responses>>

UploadResult_AlwaysUrl(o) == "https://blob/orphaned_snapshots.json"
\* export_to_storage, lines 294-302: blob_client.url once upload_blob returned,
\* None when it raised.
UploadResult(o) ==
  IF o = "ok" THEN "https://blob/orphaned_snapshots.json" ELSE "None"

StillAtProvider(record) ==
  \E x \in DOMAIN provSnapshots[record.subscription_id] :
    provSnapshots[record.subscription_id][x].id = record.id
json_content_StillAtProvider == SelectSeq(orphaned_snapshots, StillAtProvider)
\* export_to_storage, lines 288-291: the report is the manager's list as it is
\* (generated_at left out).
json_content == orphaned_snapshots

\* export_to_storage, lines 281-302: the upload of the whole list.
ExportUpload ==
  /\ pc = "export_upload"
  /\ \E o \in {"ok", "HttpResponseError", OtherError} :
       /\ calls' = Append(calls,
            Call("blob.upload_blob", "", json_content, <<>>, o))
       /\ report_url' = UploadResult(o)
       /\ pc' = "respond"
  /\ UNCHANGED <<checks, inputs, provider, params, scan, disk_cache, orphaned_snapshots,
                 results, del, responses>>

\* main, lines 370-378: reportUrl only for a URL, then the 200 response.
Respond ==
  /\ pc = "respond"
  /\ results' = IF Truthy(report_url) THEN ("reportUrl" :> report_url) @@ results
                ELSE results
  /\ responses' = Append(responses, [status_code |-> 200, body |-> results'])
  /\ pc' = "done"
  /\ UNCHANGED <<checks, inputs, provider, params, scan, disk_cache, orphaned_snapshots,
                 del, report_url, calls>>

Next ==
  \/ ReadParameters
  \/ CreateCredential
  \/ GetSubscriptions
  \/ ListSnapshots
  \/ ScanSnapshot
  \/ EndOfListing
  \/ DiskChange
  \/ Summarize
  \/ DeleteStart
  \/ DeleteOne
  \/ DeleteReturn
  \/ ExportStart
  \/ ExportContainer
  \/ ExportCreateContainer
  \/ ExportUpload
  \/ Respond

Spec == Init /\ [][Next]_vars

\* ------------------------------------------------------------ observations
CallsOf(op) == SelectSeq(calls, LAMBDA c : c.op = op)
\* find_orphaned_snapshots has gone through every subscription.
ScanComplete == pc = "scan" /\ subIdx > Len(subscriptions)
\* The snapshots the scan was given: <<subscription, snapshot>> for every listing
\* that succeeded.
Listed ==
  UNION { { <<c.sub, c.arg[i]>> : i \in DOMAIN c.arg } :
            c \in { calls[k] : k \in { j \in DOMAIN calls :
                      calls[j].op = "snapshots.list" /\ calls[j].outcome = "ok" } } }
InResult(snapshot) ==
  \E j \in DOMAIN orphaned_snapshots : orphaned_snapshots[j].id = snapshot.id
\* The claim's own reading of a malformed disk id.
Malformed(parts) ==
  Len(parts) < 9 \/ parts[7] # "Microsoft.Compute" \/ parts[8] # "disks"
\* The id names a disk, and that disk exists at the provider now.
ResolvesToDisk(parts) ==
  /\ Len(parts) = 9
  /\ parts[1] = "" /\ parts[2] = "subscriptions" /\ parts[4] = "resourceGroups"
  /\ parts[6] = "providers" /\ parts[7] = "Microsoft.Compute" /\ parts[8] = "disks"
  /\ <<parts[3], parts[5], parts[9]>> \in disks
\* The outcome is an error of the AzureError family.
IsProviderError(o) == o \in {"ResourceNotFoundError", "HttpResponseError"}
\* The lookup of the pair went to the provider and came back as an AzureError.
LookupFailed(sub, id) ==
  \E i \in DOMAIN calls :
    /\ calls[i].op = "disks.get" /\ calls[i].sub = sub /\ calls[i].ref = id
    /\ IsProviderError(calls[i].outcome)

\* ------------------------------------------------------------------ claims
\* C1 as stated: after the scan, with no disk changed meanwhile, a listed snapshot
\* is in the orphan list exactly when it names a source disk and that disk does
\* not exist at the provider.
C1_OrphanIffDiskAbsent ==
  (ScanComplete /\ diskChanges = 0) =>
    \A ls \in Listed :
      InResult(ls[2]) <=> (ls[2].src # NoSource /\ ~ ResolvesToDisk(ls[2].src))

\* C1 amended: after the scan a listed snapshot has exactly one record in the
\* orphan list when it names a source disk and the existence check of (its own
\* subscription, that id) answered false, that is the id is malformed or the
\* lookup of the pair raised an AzureError; otherwise it has none.
C1_OrphanIffCheckFalse ==
  ScanComplete =>
    \A ls \in Listed :
      LET n == Len(SelectSeq(orphaned_snapshots, LAMBDA r : r.id = ls[2].id)) IN
      IF ls[2].src # NoSource
         /\ (Malformed(ls[2].src) \/ LookupFailed(ls[1], ls[2].src))
        THEN n = 1 ELSE n = 0

\* C1 witness: the scan ended with a snapshot in the list whose source disk exists
\* (its lookup failed) beside a sourceless snapshot that is not in the list.
C1_Witness ==
  /\ ScanComplete /\ diskChanges = 0
  /\ \E a \in Listed, b \in Listed :
       /\ InResult(a[2]) /\ ResolvesToDisk(a[2].src)
       /\ b[2].src = NoSource /\ ~ InResult(b[2])

DeleteCalls == CallsOf("snapshots.begin_delete")
\* delete_orphaned_snapshots has returned to main.
DeletionReturned == "deletion" \in DOMAIN results

\* C2: with dry_run = True no delete call is ever issued to the provider, and when
\* delete_orphaned_snapshots has returned over N records it returned (N, 0).
C2_DryRunDeletesNothing ==
  dry_run = "True" =>
    /\ DeleteCalls = <<>>
    /\ DeletionReturned =>
         /\ results["deletion"].successful = Len(orphaned_snapshots)
         /\ results["deletion"].failed = 0

\* C2 witness: a dry run returned over two records that are still at the provider.
C2_Witness ==
  /\ dry_run = "True" /\ DeletionReturned
  /\ Len(orphaned_snapshots) = 2
  /\ results["deletion"].successful = 2
  /\ \A j \in DOMAIN orphaned_snapshots :
       \E x \in DOMAIN provSnapshots[orphaned_snapshots[j].subscription_id] :
         provSnapshots[orphaned_snapshots[j].subscription_id][x].id
           = orphaned_snapshots[j].id

C4_Flag(field, name, default) ==
  IF body.kind = "object" /\ body[field] # Missing THEN body[field]
  ELSE IF env[name] = Unset THEN default
  ELSE IF env[name] \in {"true", "True", "TRUE"} THEN "True" ELSE "False"
C4_Condition ==
  \/ C4_Flag("enableDeletion", "ENABLE_DELETION", "False") = "True"
  \/ C4_Flag("dryRun", "DRY_RUN", "True") = "False"
DeletionStepRuns == pc \in {"delete", "delete_loop"} \/ DeletionReturned
Responded200 == responses # <<>> /\ responses[1].status_code = 200

\* C4 as stated: the deletion step runs, and a 200 response carries "deletion",
\* exactly when the resolved enableDeletion is true or the resolved dryRun is false.
C4_DeletionIffEnabledOrNotDry ==
  /\ DeletionStepRuns => C4_Condition
  /\ Responded200 => ("deletion" \in DOMAIN responses[1].body <=> C4_Condition)

DiskGets == CallsOf("disks.get")
SamePair(a, b) == a.sub = b.sub /\ a.id = b.id

\* C5: no pair (subscription, source id) is looked up at the provider twice, and
\* every disk_exists call answers what the first call for its pair answered.
C5_OneLookupPerPair ==
  /\ \A i \in DOMAIN DiskGets, j \in DOMAIN DiskGets :
       (DiskGets[i].sub = DiskGets[j].sub /\ DiskGets[i].ref = DiskGets[j].ref)
         => i = j
  /\ \A i \in DOMAIN checks, j \in DOMAIN checks :
       (i < j /\ SamePair(checks[i], checks[j]))
         => checks[j].value = checks[i].value

\* C5 witness: two calls for one well-formed pair, the disk present at one and
\* absent at the other, answered alike from a single lookup.
C5_Witness ==
  /\ Len(checks) = 2 /\ SamePair(checks[1], checks[2])
  /\ ~ Malformed(checks[1].id)
  /\ checks[1].present # checks[2].present
  /\ checks[1].value = checks[2].value
  /\ Len(DiskGets) = 1

\* C6: for an id with fewer than 9 segments, or segment 6 not Microsoft.Compute, or
\* segment 7 not disks, disk_exists returns false and caches false, without a
\* lookup and without raising: every listed snapshot with such a source id got its
\* answer.
C6_MalformedIsFalse ==
  /\ \A i \in DOMAIN DiskGets : ~ Malformed(DiskGets[i].ref)
  /\ \A k \in DOMAIN checks :
       Malformed(checks[k].id) =>
         /\ checks[k].value = FALSE
         /\ <<checks[k].sub, checks[k].id>> \in DOMAIN disk_cache
         /\ disk_cache[<<checks[k].sub, checks[k].id>>] = FALSE
  /\ ScanComplete =>
       \A ls \in Listed :
         (ls[2].src # NoSource /\ Malformed(ls[2].src)) =>
           \E k \in DOMAIN checks : checks[k].sub = ls[1] /\ checks[k].id = ls[2].src

\* C6 witness: a wrong namespace and a wrong resource type were both answered false
\* and no lookup was issued.
C6_Witness ==
  /\ ScanComplete /\ DiskGets = <<>>
  /\ \E a \in DOMAIN checks, b \in DOMAIN checks :
       /\ checks[a].id = WrongNamespace /\ checks[b].id = WrongType
       /\ ~ checks[a].value /\ ~ checks[b].value

Cached(sub, id, v) ==
  <<sub, id>> \in DOMAIN disk_cache /\ disk_cache[<<sub, id>>] = v
Answered(sub, id, v) ==
  \E k \in DOMAIN checks :
    checks[k].sub = sub /\ checks[k].id = id /\ checks[k].value = v

\* C7 as stated: whatever failure the lookup of a well-formed id ends in, false is
\* cached and returned, and success caches and returns true.
C7_NoLookupErrorPropagates ==
  \A i \in DOMAIN DiskGets :
    LET c == DiskGets[i] IN
    /\ c.outcome = "ok" => (Cached(c.sub, c.ref, TRUE) /\ Answered(c.sub, c.ref, TRUE))
    /\ c.outcome # "ok" =>
         (Cached(c.sub, c.ref, FALSE) /\ Answered(c.sub, c.ref, FALSE))

\* C7 amended: a lookup that raises an AzureError (not found, permission,
\* transient) caches and returns false, a lookup that succeeds caches and returns
\* true, and an exception that is no AzureError leaves disk_exists uncached and
\* ends the invocation as a 500.
C7_AzureErrorIsFalse ==
  \A i \in DOMAIN DiskGets :
    LET c == DiskGets[i] IN
    /\ c.outcome = "ok" => (Cached(c.sub, c.ref, TRUE) /\ Answered(c.sub, c.ref, TRUE))
    /\ IsProviderError(c.outcome) =>
         (Cached(c.sub, c.ref, FALSE) /\ Answered(c.sub, c.ref, FALSE))
    /\ (c.outcome # "ok" /\ ~ IsProviderError(c.outcome)) =>
         /\ <<c.sub, c.ref>> \notin DOMAIN disk_cache
         /\ responses = <<ErrorResponse>>

\* C7 witness: a lookup of an existing disk failed with a permission or transient
\* error and one of an absent disk with not-found; both were answered false and the
\* invocation went on to a 200.
C7_Witness ==
  /\ Responded200
  /\ \E i \in DOMAIN DiskGets, j \in DOMAIN DiskGets :
       /\ DiskGets[i].outcome = "HttpResponseError"
       /\ DiskGets[j].outcome = "ResourceNotFoundError"
       /\ Answered(DiskGets[i].sub, DiskGets[i].ref, FALSE)
       /\ Answered(DiskGets[j].sub, DiskGets[j].ref, FALSE)

ListCalls == CallsOf("snapshots.list")
\* The ids of the snapshots of one listing that qualify as orphaned, in order.
RECURSIVE Qualifying(_, _)
Qualifying(sub, listing) ==
  IF listing = <<>> THEN <<>>
  ELSE (IF Head(listing).src # NoSource
           /\ (Malformed(Head(listing).src) \/ LookupFailed(sub, Head(listing).src))
          THEN <<Head(listing).id>> ELSE <<>>)
       \o Qualifying(sub, Tail(listing))
\* The same over the first n listings that succeeded or failed, in call order.
RECURSIVE ExpectedIds(_)
ExpectedIds(n) ==
  IF n = 0 THEN <<>>
  ELSE ExpectedIds(n - 1) \o Qualifying(ListCalls[n].sub, ListCalls[n].arg)
ResultIds == [j \in DOMAIN orphaned_snapshots |-> orphaned_snapshots[j].id]
\* find_orphaned_snapshots returned and main built its summary.
ScanReturned == results # EmptyMap
\* Some call ended in an exception that no handler of the manager catches.
Escaped(c) ==
  /\ c.outcome # "ok"
  /\ \/ c.op \in {"credential", "subscriptions.get", "subscriptions.list"}
     \/ /\ c.op \in {"snapshots.list", "disks.get", "snapshots.begin_delete"}
        /\ ~ IsProviderError(c.outcome)
Uncaught == body.kind = "invalid" \/ \E i \in DOMAIN calls : Escaped(calls[i])
FailedListing(c) == c.op = "snapshots.list" /\ c.outcome # "ok"

\* C8 as stated: once a listing failed, the invocation still ends in a 200 whose
\* count is that of the records from the subscriptions listed successfully, every
\* subscription having been tried.
C8_ListingFailureStill200 ==
  ((\E i \in DOMAIN calls : FailedListing(calls[i])) /\ pc = "done") =>
    /\ Responded200
    /\ Len(ListCalls) = Len(subscriptions)
    /\ responses[1].body["orphanedSnapshotsCount"] = Len(ExpectedIds(Len(ListCalls)))

\* C8 amended: a listing that fails with an AzureError does not end the invocation;
\* the scan then tries every remaining subscription in order, the result list is
\* exactly the qualifying snapshots of the listings that succeeded, and, unless an
\* exception that is no AzureError escapes some step, the invocation ends in a 200
\* whose orphanedSnapshotsCount counts those records.
C8_AzureListingFailureIsSkipped ==
  (\E i \in DOMAIN calls : FailedListing(calls[i]) /\ IsProviderError(calls[i].outcome))
  =>
    /\ \A i \in DOMAIN calls :
         (FailedListing(calls[i]) /\ IsProviderError(calls[i].outcome))
           => ~ (i = Len(calls) /\ responses # <<>>
                 /\ responses[1].status_code = 500)
    /\ ScanReturned =>
         /\ Len(ListCalls) = Len(subscriptions)
         /\ \A k \in DOMAIN ListCalls : ListCalls[k].sub = subscriptions[k].id
         /\ ResultIds = ExpectedIds(Len(ListCalls))
    /\ (pc = "done" /\ ~ Uncaught) =>
         /\ Responded200
         /\ responses[1].body["orphanedSnapshotsCount"] = Len(ExpectedIds(Len(ListCalls)))

\* C8 witness: the first subscription's listing failed with an AzureError, the
\* second was scanned and gave the one record the 200 response counts.
C8_Witness ==
  /\ Responded200
  /\ Len(ListCalls) = 2
  /\ IsProviderError(ListCalls[1].outcome) /\ ListCalls[2].outcome = "ok"
  /\ Len(orphaned_snapshots) = 1
  /\ orphaned_snapshots[1].subscription_id = ListCalls[2].sub
  /\ responses[1].body["orphanedSnapshotsCount"] = 1

StorageCalls ==
  SelectSeq(calls, LAMBDA c : c.op \in {"container.exists",
                                        "container.create_container",
                                        "blob.upload_blob"})
LastStorageCall == StorageCalls[Len(StorageCalls)]

\* C9: export makes no storage call over an empty result list; once a container or
\* blob operation failed nothing more is called and no URL is returned; a URL is
\* returned only after upload_blob succeeded; an invocation that reached a storage
\* call never ends in a 500, and its 200 response holds reportUrl exactly when a
\* URL was returned.
C9_ExportIsBestEffort ==
  /\ StorageCalls # <<>> => orphaned_snapshots # <<>>
  /\ \A i \in DOMAIN StorageCalls :
       StorageCalls[i].outcome \notin {"ok", "exists", "absent"}
         => (i = Len(StorageCalls) /\ report_url = "None")
  /\ Truthy(report_url) =>
       (StorageCalls # <<>> /\ LastStorageCall.op = "blob.upload_blob"
        /\ LastStorageCall.outcome = "ok")
  /\ (StorageCalls # <<>> \/ pc \in {"export_container", "export_create",
                                     "export_upload", "respond"})
       => responses \in {<<>>, <<[status_code |-> 200, body |-> results]>>}
  /\ Responded200 =>
       /\ "reportUrl" \in DOMAIN responses[1].body <=> Truthy(report_url)
       /\ Truthy(report_url) => responses[1].body["reportUrl"] = report_url

\* C9 witness: upload_blob raised an exception that is no AzureError and the
\* invocation still answered 200, without reportUrl.
C9_Witness ==
  /\ Responded200
  /\ StorageCalls # <<>>
  /\ LastStorageCall.op = "blob.upload_blob" /\ LastStorageCall.outcome = OtherError
  /\ "reportUrl" \notin DOMAIN responses[1].body

SummaryKeys == {"timestamp", "orphanedSnapshotsCount", "totalSizeGB", "subscriptionId"}

\* C10: an invocation returns one response and only at its end, and it can always
\* go on until then; the response is a 500 exactly when an exception escaped a
\* step, and then its body holds the error message alone; otherwise it is a 200
\* holding the summary.
C10_OneResponse ==
  /\ Len(responses) <= 1
  /\ pc = "done" <=> Len(responses) = 1
  /\ pc # "done" => ENABLED Next
  /\ pc = "done" =>
       /\ responses[1].status_code \in {200, 500}
       /\ responses[1].status_code = 500 <=> Uncaught
       /\ responses[1].status_code = 500 => DOMAIN responses[1].body = {"error"}
       /\ responses[1].status_code = 200 =>
            /\ SummaryKeys \subseteq DOMAIN responses[1].body
            /\ "error" \notin DOMAIN responses[1].body

\* C10 witness: a 500 after the summary was computed and a snapshot was deleted at
\* the provider.
C10_Witness ==
  /\ pc = "done" /\ responses[1].status_code = 500
  /\ ScanReturned
  /\ \E i \in DOMAIN DeleteCalls : DeleteCalls[i].outcome = "ok"

\* The sizes of the first n records added up, a size the provider did not report
\* taken as 0.
RECURSIVE C11_SizeSum(_)
C11_SizeSum(n) ==
  IF n = 0 THEN 0
  ELSE C11_SizeSum(n - 1)
       + (LET size == orphaned_snapshots[n].size_gb IN
          IF size = NoneGB THEN 0 ELSE size[1])

\* C11: in every 200 response orphanedSnapshotsCount is the number of records in
\* the list the scan returned, each record holds the size its snapshot was listed
\* with, and totalSizeGB is the sum of the records' sizes with a missing or zero
\* size counted as 0.
C11_SummaryCountsAndSizes ==
  Responded200 =>
    /\ responses[1].body["orphanedSnapshotsCount"] = Len(orphaned_snapshots)
    /\ \A j \in DOMAIN orphaned_snapshots :
         \E ls \in Listed : /\ ls[2].id = orphaned_snapshots[j].id
                            /\ ls[2].disk_size_gb = orphaned_snapshots[j].size_gb
    /\ responses[1].body["totalSizeGB"] = C11_SizeSum(Len(orphaned_snapshots))

\* C11 witness: a 200 response over two records, one without a reported size and
\* one of 25 GB, counts 2 and totals 25.
C11_Witness ==
  /\ Responded200
  /\ Len(orphaned_snapshots) = 2
  /\ \E a \in DOMAIN orphaned_snapshots, b \in DOMAIN orphaned_snapshots :
       /\ orphaned_snapshots[a].size_gb = NoneGB
       /\ orphaned_snapshots[b].size_gb = <<25>>
  /\ responses[1].body["orphanedSnapshotsCount"] = 2
  /\ responses[1].body["totalSizeGB"] = 25

UploadCalls == CallsOf("blob.upload_blob")

\* C12: from the moment the scan returned its list, no step of the invocation
\* changes it: delete_orphaned_snapshots, dry or real, with deletes succeeding or
\* failing, leaves the same records in the same order, and the export that
\* follows uploads exactly that list, as many records as the summary counted.
C12_DeletionKeepsTheList ==
  /\ [][ScanReturned => orphaned_snapshots' = orphaned_snapshots]_vars
  /\ [](\A i \in DOMAIN UploadCalls :
          /\ UploadCalls[i].arg = orphaned_snapshots
          /\ Len(UploadCalls[i].arg) = results["orphanedSnapshotsCount"])

\* C12 witness: a snapshot was deleted at the provider, is gone from it, and the
\* report uploaded afterwards still lists its record.
C12_Witness ==
  /\ UploadCalls # <<>>
  /\ \E d \in DOMAIN DeleteCalls :
       /\ DeleteCalls[d].outcome = "ok"
       /\ \A x \in DOMAIN provSnapshots[DeleteCalls[d].sub] :
            provSnapshots[DeleteCalls[d].sub][x].id # DeleteCalls[d].ref
       /\ \E j \in DOMAIN UploadCalls[1].arg :
            UploadCalls[1].arg[j].id = DeleteCalls[d].ref

\* The positions in the call log of the calls of the given operations.
CallIdx(ops) == { i \in DOMAIN calls : calls[i].op \in ops }
ScanOps == {"snapshots.list", "disks.get"}
DeleteOps == {"snapshots.begin_delete"}
StorageOps == {"container.exists", "container.create_container", "blob.upload_blob"}
\* Where a record's snapshot was discovered: which listing, and where in it.
Discovered(record, k, x) ==
  /\ k \in DOMAIN ListCalls /\ ListCalls[k].outcome = "ok"
  /\ ListCalls[k].sub = record.subscription_id
  /\ x \in DOMAIN ListCalls[k].arg /\ ListCalls[k].arg[x].id = record.id
ListingOf(record) == CHOOSE k \in DOMAIN ListCalls : ListCalls[k].sub = record.subscription_id
PlaceOf(record) ==
  CHOOSE x \in DOMAIN ListCalls[ListingOf(record)].arg :
    ListCalls[ListingOf(record)].arg[x].id = record.id

\* C13: in the call log of an invocation every listing and every disk lookup
\* comes before the first delete call and every delete call before the first
\* storage call; the subscriptions are listed in the order get_subscriptions gave
\* them, which is the provider's; the records of the result list are in the order
\* of discovery, by listing and then by place in the listing; and the i-th delete
\* call is for the i-th record, issued once the calls before it have returned.
C13_PhasedAndOrdered ==
  /\ \A i \in CallIdx(ScanOps), j \in CallIdx(DeleteOps) : i < j
  /\ \A i \in CallIdx(DeleteOps), j \in CallIdx(StorageOps) : i < j
  /\ \A k \in DOMAIN ListCalls :
       /\ k <= Len(subscriptions) /\ ListCalls[k].sub = subscriptions[k].id
       /\ ~ Truthy(subscription_id) => ListCalls[k].sub = ProviderSubscriptions[k]
  /\ \A j \in DOMAIN orphaned_snapshots :
       /\ \E k \in DOMAIN ListCalls :
            \E x \in DOMAIN ListCalls[k].arg : Discovered(orphaned_snapshots[j], k, x)
       /\ \A i \in 1..(j - 1) :
            LET a == orphaned_snapshots[i]
                b == orphaned_snapshots[j] IN
            \/ ListingOf(a) < ListingOf(b)
            \/ ListingOf(a) = ListingOf(b) /\ PlaceOf(a) < PlaceOf(b)
  /\ Len(DeleteCalls) <= Len(orphaned_snapshots)
  /\ \A i \in DOMAIN DeleteCalls :
       /\ DeleteCalls[i].ref = orphaned_snapshots[i].id
       /\ DeleteCalls[i].sub = orphaned_snapshots[i].subscription_id
       /\ i < Len(DeleteCalls) =>
            (DeleteCalls[i].outcome = "ok" \/ IsProviderError(DeleteCalls[i].outcome))

\* C13 witness: two subscriptions were listed and their disks looked up, the two
\* records found, one in each, were deleted in that order, and then the report
\* was uploaded.
C13_Witness ==
  /\ Len(ListCalls) = 2 /\ DiskGets # <<>>
  /\ Len(orphaned_snapshots) = 2
  /\ orphaned_snapshots[1].subscription_id = "s1"
  /\ orphaned_snapshots[2].subscription_id = "s2"
  /\ Len(DeleteCalls) = 2
  /\ DeleteCalls[1].ref = orphaned_snapshots[1].id
  /\ DeleteCalls[2].ref = orphaned_snapshots[2].id
  /\ UploadCalls # <<>>

\* Dry-run was explicitly turned off: the body's dryRun is the boolean false, or
\* the body has no dryRun field and DRY_RUN is set to something other than "true"
\* in any letter case.
C14_DryRunOff ==
  IF body.kind = "object" /\ body.dryRun # Missing
    THEN body.dryRun = "False"
    ELSE env.DRY_RUN \notin {Unset, "true", "True", "TRUE"}

\* C14 as stated: a delete call is issued to the provider only in an invocation
\* whose dry-run was explicitly turned off; a dryRun field that is null or another
\* non-boolean never leads to one.
C14_DeleteOnlyWhenDryRunOff ==
  DeleteCalls # <<>> => C14_DryRunOff

====
